---------------------------- MODULE Spec2Model ----------------------------
(***************************************************************************)
(* Grid partitioning among m players (Connected-Subgraph-Problem).         *)
(*                                                                         *)
(* The module models                                                       *)
(*   - the greedy seed      src/formulation/heuristic.py initial_assignment *)
(*   - the two moves        try_swap_assignment, try_change_single_assigment*)
(*   - the scoring          calc_local_score, _total_edge_diff              *)
(*   - the local search     solve_assignment (heuristic.py)                 *)
(*   - the pair/z building  src/formulation/edge_diff.py solve_assignment   *)
(*                                                                         *)
(* Arrays are 0-indexed as in the source: a cell is <<row, col>> with      *)
(* row, col \in 0..n-1, and requirements/scores are functions on 0..m-1.   *)
(***************************************************************************)
EXTENDS Integers, Sequences, FiniteSets

VARIABLES
    inp,         \* the call's arguments: [n, grid, requirements, max_iter]
    ia,          \* run id -> the locals of one run of initial_assignment
    pc,          \* position in the entry point being executed
    assignment,  \* the n x n assignment array held by the caller
    i,           \* solve_assignment's loop counter (heuristic.py:150)
    last,        \* what the latest local-search iteration drew and returned
    mv,          \* the latest direct call of a move: arguments and result
    ed           \* the locals of edge_diff.solve_assignment's pair building

vars == <<inp, ia, pc, assignment, i, last, mv, ed>>

---------------------------------------------------------------------------
(* Bounds of the model.                                                    *)

\* largest side of an assignment array handed directly to the moves
MaxN == 3
\* largest player id held by such an array
MaxId == 1
\* largest side of an enumerated weighted grid
MaxGridN == 2
\* largest cell weight of an enumerated grid
MaxWeight == 2
\* largest number of players of an enumerated requirements vector
MaxM == 2
\* largest requirement of an enumerated requirements vector
MaxReq == 5
\* largest max_iter
MaxIter == 2
\* largest grid side for the pair building of the exact formulation
MaxPairN == 5

---------------------------------------------------------------------------
(* Array helpers.                                                          *)

Cells(n) == (0..(n - 1)) \X (0..(n - 1))

\* np.zeros((n, n), dtype=int)
Zeros2D(n) == [cell \in Cells(n) |-> 0]

\* a Python bool used as an int (score += a != b)
BoolToInt(b) == IF b THEN 1 ELSE 0

\* assignment.shape of the array in hand: (n, n)
ShapeH == inp.n
ShapeW == inp.n

---------------------------------------------------------------------------
(* Scoring: calc_local_score and _total_edge_diff.                         *)

\* the variant that indexes without bounds checks: Python's assignment[r, -1]
\* wraps to the last column/row, and an index of w is taken modulo w here
calc_local_score_wrap(a, r, c) ==
    LET h == ShapeH
        w == ShapeW
    IN  BoolToInt(a[r, c] # a[r, (c + 1) % w])
      + BoolToInt(a[r, c] # a[r, (c - 1 + w) % w])
      + BoolToInt(a[r, c] # a[(r + 1) % h, c])
      + BoolToInt(a[r, c] # a[(r - 1 + h) % h, c])

calc_local_score(a, r, c) ==
    LET h == ShapeH
        w == ShapeW
    IN  (IF c + 1 < w  THEN BoolToInt(a[r, c] # a[r, c + 1]) ELSE 0)
      + (IF c - 1 >= 0 THEN BoolToInt(a[r, c] # a[r, c - 1]) ELSE 0)
      + (IF r + 1 < h  THEN BoolToInt(a[r, c] # a[r + 1, c]) ELSE 0)
      + (IF r - 1 >= 0 THEN BoolToInt(a[r, c] # a[r - 1, c]) ELSE 0)

\* np.sum(a[:, :-1] != a[:, 1:]) + np.sum(a[:-1, :] != a[1:, :])
_total_edge_diff(a) ==
    LET h == ShapeH
        w == ShapeW
    IN  Cardinality({cell \in (0..(h - 1)) \X (0..(w - 2)) :
                        a[cell[1], cell[2]] # a[cell[1], cell[2] + 1]})
      + Cardinality({cell \in (0..(h - 2)) \X (0..(w - 1)) :
                        a[cell[1], cell[2]] # a[cell[1] + 1, cell[2]]})

---------------------------------------------------------------------------
(* Players and their scores.                                               *)

\* requirements.size and the player indices 0..m-1
NumPlayers(requirements) == Len(requirements)
Players(requirements) == 0..(NumPlayers(requirements) - 1)
\* requirements[k], 0-indexed as in the source
Req(requirements, k) == requirements[k + 1]

\* PlayerScore[k] of an assignment: the summed weight of the cells holding k+1
RECURSIVE SumWeights(_, _)
SumWeights(grid, cells) ==
    IF cells = {} THEN 0
    ELSE LET cell == CHOOSE x \in cells : TRUE
         IN  grid[cell] + SumWeights(grid, cells \ {cell})

\* PlayerScore[k] of array a over the call's grid
PlayerScore(a, k) ==
    SumWeights(inp.grid, {cell \in Cells(inp.n) : a[cell] = k + 1})

\* the score band of the problem statement: every player's score lies in
\* [requirements[k], requirements[k] * 1.2]
InBand(a) ==
    \A k \in Players(inp.requirements) :
        /\ PlayerScore(a, k) >= Req(inp.requirements, k)
        /\ 10 * PlayerScore(a, k) <= 12 * Req(inp.requirements, k)

---------------------------------------------------------------------------
(* The two moves.  Each returns the array as the call leaves it and the    *)
(* boolean it returns.                                                     *)

\* the tuple assignment a[p1], a[p2] = a[p2], a[p1]: both right-hand values
\* are read before either cell is written
SwapCells(a, pos1, pos2) ==
    [cell \in DOMAIN a |->
        IF cell = pos2 THEN a[pos1]
        ELSE IF cell = pos1 THEN a[pos2]
        ELSE a[cell]]

\* the variant that forgets to swap back on rejection
try_swap_no_revert(a, pos1, pos2) ==
    LET curr_score == calc_local_score(a, pos1[1], pos1[2])
                        + calc_local_score(a, pos2[1], pos2[2])
        swapped    == SwapCells(a, pos1, pos2)
        next_score == calc_local_score(swapped, pos1[1], pos1[2])
                        + calc_local_score(swapped, pos2[1], pos2[2])
    IN  [assignment |-> swapped, ret |-> ~(next_score >= curr_score)]

try_swap_assignment(a, pos1, pos2) ==
    LET curr_score == calc_local_score(a, pos1[1], pos1[2])
                        + calc_local_score(a, pos2[1], pos2[2])
        swapped    == SwapCells(a, pos1, pos2)
        next_score == calc_local_score(swapped, pos1[1], pos1[2])
                        + calc_local_score(swapped, pos2[1], pos2[2])
    IN  IF next_score >= curr_score
        THEN [assignment |-> SwapCells(swapped, pos1, pos2), ret |-> FALSE]
        ELSE [assignment |-> swapped, ret |-> TRUE]

\* a recolor that also refuses to take the scores out of the band
try_change_band_guarded(a, pos, new_value) ==
    LET curr_score == calc_local_score(a, pos[1], pos[2])
        changed    == [a EXCEPT ![pos] = new_value]
        new_score  == calc_local_score(changed, pos[1], pos[2])
    IN  IF new_score < curr_score /\ (InBand(a) => InBand(changed))
        THEN [assignment |-> changed, ret |-> TRUE]
        ELSE [assignment |-> a, ret |-> FALSE]

\* a recolor that also accepts a move leaving the local score unchanged
try_change_accept_equal(a, pos, new_value) ==
    LET curr_score == calc_local_score(a, pos[1], pos[2])
        changed    == [a EXCEPT ![pos] = new_value]
        new_score  == calc_local_score(changed, pos[1], pos[2])
    IN  IF new_score <= curr_score
        THEN [assignment |-> changed, ret |-> TRUE]
        ELSE [assignment |-> a, ret |-> FALSE]

try_change_single_assigment(a, pos, new_value) ==
    LET old_value  == a[pos]
        curr_score == calc_local_score(a, pos[1], pos[2])
        changed    == [a EXCEPT ![pos] = new_value]
        new_score  == calc_local_score(changed, pos[1], pos[2])
    IN  IF new_score < curr_score
        THEN [assignment |-> changed, ret |-> TRUE]
        ELSE [assignment |-> [changed EXCEPT ![pos] = old_value], ret |-> FALSE]

---------------------------------------------------------------------------
(* initial_assignment: the greedy seed.                                    *)

\* the variant that keeps requirements * 1.2 rounded up
UpperBoundCeil(r) == (r * 12 + 9) \div 10

\* (requirements * 1.2).astype(int): the double product truncated toward
\* zero.  For a non-negative integer r the double r * 1.2 truncates to
\* floor(12 r / 10): 1.2 is stored with relative error 3.7e-17, below half
\* an ulp, so multiples of 5 round to the exact integer and every other r
\* has a fractional part of at least 0.2.
UpperBound(r) == (r * 12) \div 10

\* upper_bounds[k]
upper_bounds(requirements, k) == UpperBound(Req(requirements, k))

\* grid.flatten(): flat index f is cell (f // n, f % n)
Flatten(grid, n) == [f \in 0..(n * n - 1) |-> grid[f \div n, f % n]]

\* the position of flat index f in an ascending stable sort of flat
StableRank(flat, f) ==
    Cardinality({g \in DOMAIN flat :
                    flat[g] < flat[f] \/ (flat[g] = flat[f] /\ g < f)})

\* every order argsort could return were ties broken arbitrarily per call
argsort_any_tie(flat) ==
    LET N == Cardinality(DOMAIN flat)
    IN  {o \in [1..N -> DOMAIN flat] :
            /\ \A a, b \in 1..N : a # b => o[a] # o[b]
            /\ \A a, b \in 1..N : a < b => flat[o[a]] <= flat[o[b]]}

\* np.argsort(flat): the ascending order, as the set of orders one call can
\* return.  numpy's default sort is a fixed algorithm without random
\* pivoting; on arrays this small it is an insertion sort, which keeps equal
\* elements in index order.
argsort(flat) ==
    LET N == Cardinality(DOMAIN flat)
    IN  {[k \in 1..N |-> CHOOSE f \in DOMAIN flat : StableRank(flat, f) = k - 1]}

\* [::-1]
Reversed(s) == [k \in 1..Len(s) |-> s[Len(s) + 1 - k]]

\* np.iinfo(np.int64).max, scaled to 32 bits: any value above every
\* remaining capacity behaves the same in np.argmin
Int64Max == 2147483647

\* eligible[k] dropping the upper-bound test
eligible_no_cap(requirements, scores, satisfied, value, k) ==
    /\ ~satisfied[k]
    /\ Req(requirements, k) - scores[k] > 0

\* eligible[k] (heuristic.py:43)
eligible(requirements, scores, satisfied, value, k) ==
    /\ ~satisfied[k]
    /\ Req(requirements, k) - scores[k] > 0
    /\ value <= upper_bounds(requirements, k) - scores[k]

\* capacity_for_choice[k] (heuristic.py:49)
capacity_for_choice(requirements, scores, satisfied, value, k) ==
    IF eligible(requirements, scores, satisfied, value, k)
    THEN upper_bounds(requirements, k) - scores[k]
    ELSE Int64Max

\* np.argmax in place of np.argmin: the first index holding the maximum
chosen_k_argmax(requirements, scores, satisfied, value) ==
    CHOOSE k \in Players(requirements) :
        /\ \A j \in Players(requirements) :
              capacity_for_choice(requirements, scores, satisfied, value, k)
                >= capacity_for_choice(requirements, scores, satisfied, value, j)
        /\ \A j \in Players(requirements) :
              j < k =>
                capacity_for_choice(requirements, scores, satisfied, value, j)
                  < capacity_for_choice(requirements, scores, satisfied, value, k)

\* the first eligible player instead of the tightest one
chosen_k_first_eligible(requirements, scores, satisfied, value) ==
    CHOOSE k \in Players(requirements) :
        /\ eligible(requirements, scores, satisfied, value, k)
        /\ \A j \in Players(requirements) :
              j < k => ~eligible(requirements, scores, satisfied, value, j)

\* np.argmin: the first index holding the minimum
chosen_k(requirements, scores, satisfied, value) ==
    CHOOSE k \in Players(requirements) :
        /\ \A j \in Players(requirements) :
              capacity_for_choice(requirements, scores, satisfied, value, k)
                <= capacity_for_choice(requirements, scores, satisfied, value, j)
        /\ \A j \in Players(requirements) :
              j < k =>
                capacity_for_choice(requirements, scores, satisfied, value, j)
                  > capacity_for_choice(requirements, scores, satisfied, value, k)

\* the locals of a run that has not started
EntryIA == [pc |-> "entry", order |-> <<>>, pos |-> 1, scores |-> <<>>,
            satisfied |-> <<>>, assignment |-> <<>>]

\* heuristic.py:20-29
IA_Start(r) ==
    /\ ia[r].pc = "entry"
    /\ \E o \in argsort(Flatten(inp.grid, inp.n)) :
         ia' = [ia EXCEPT ![r] =
                  [pc |-> "loop",
                   order |-> Reversed(o),
                   pos |-> 1,
                   scores |-> [k \in Players(inp.requirements) |-> 0],
                   satisfied |-> [k \in Players(inp.requirements) |-> FALSE],
                   assignment |-> Zeros2D(inp.n)]]
    /\ UNCHANGED <<inp, pc, assignment, i, last, mv, ed>>

\* the for loop has a next flat_idx
IA_HasNext(r) == ia[r].pc = "loop" /\ ia[r].pos <= Len(ia[r].order)

\* satisfied.all()
AllSatisfied(r) == \A k \in Players(inp.requirements) : ia[r].satisfied[k]

\* the cell and value of the current flat_idx (heuristic.py:35-37)
CurRow(r) == ia[r].order[ia[r].pos] \div inp.n
CurCol(r) == ia[r].order[ia[r].pos] % inp.n
CurValue(r) == inp.grid[CurRow(r), CurCol(r)]

\* eligible.any()
AnyEligible(r) ==
    \E k \in Players(inp.requirements) :
        eligible(inp.requirements, ia[r].scores, ia[r].satisfied, CurValue(r), k)

\* heuristic.py:32-33: every player satisfied, leave the loop and return
IA_Break(r) ==
    /\ IA_HasNext(r)
    /\ AllSatisfied(r)
    /\ ia' = [ia EXCEPT ![r].pc = "returned"]
    /\ UNCHANGED <<inp, pc, assignment, i, last, mv, ed>>

\* heuristic.py:45-46: no player is eligible, the cell stays 0
IA_Skip(r) ==
    /\ IA_HasNext(r)
    /\ ~AllSatisfied(r)
    /\ ~AnyEligible(r)
    /\ ia' = [ia EXCEPT ![r].pos = @ + 1]
    /\ UNCHANGED <<inp, pc, assignment, i, last, mv, ed>>

\* heuristic.py:48-56: the cell goes to chosen_k
IA_Assign(r) ==
    /\ IA_HasNext(r)
    /\ ~AllSatisfied(r)
    /\ AnyEligible(r)
    /\ LET k == chosen_k(inp.requirements, ia[r].scores, ia[r].satisfied,
                         CurValue(r))
           score == ia[r].scores[k] + CurValue(r)
       IN  ia' = [ia EXCEPT
                    ![r].assignment[CurRow(r), CurCol(r)] = k + 1,
                    ![r].scores[k] = score,
                    ![r].satisfied[k] =
                        IF score >= Req(inp.requirements, k) THEN TRUE ELSE @,
                    ![r].pos = @ + 1]
    /\ UNCHANGED <<inp, pc, assignment, i, last, mv, ed>>

\* heuristic.py:31,58: the cells are exhausted, return
IA_Exhausted(r) ==
    /\ ia[r].pc = "loop"
    /\ ia[r].pos > Len(ia[r].order)
    /\ ia' = [ia EXCEPT ![r].pc = "returned"]
    /\ UNCHANGED <<inp, pc, assignment, i, last, mv, ed>>

---------------------------------------------------------------------------
(* solve_assignment (heuristic.py): seed, draws, local search.             *)

\* the values np.random.randint(low, high) can return: low <= x < high
randint(low, high) == low..(high - 1)

\* heuristic.py:139-141: a candidate position is (randint(0, h), randint(1, w))
CandidatePositions(h, w) == randint(0, h) \X randint(1, w)

\* heuristic.py:138,142: assign_num = len(requirements) + 1, and the targets
\* are randint(0, assign_num + 1)
CandidateTargets(requirements) ==
    LET assign_num == NumPlayers(requirements) + 1
    IN  randint(0, assign_num + 1)

\* np.random.randint(low, high, size): a size of 0 returns the empty array
\* before the range is looked at; otherwise low >= high raises ValueError
randint_raises(low, high, size) == size > 0 /\ low >= high

\* one of the seven draws of heuristic.py:139-142 raises
DrawsRaise(h, w, requirements, max_iter) ==
    \/ randint_raises(0, h, max_iter)
    \/ randint_raises(1, w, max_iter)
    \/ randint_raises(0, NumPlayers(requirements) + 2, max_iter)

\* range(max_iter + 1): one iteration too many
in_range_inclusive(k, max_iter) == k <= max_iter

\* i in range(max_iter) (heuristic.py:150)
in_range(k, max_iter) == k < max_iter

\* heuristic.py:136-148: initial_assignment has returned, the draws succeed
LS_Setup ==
    /\ pc = "initial_assignment"
    /\ ia[1].pc = "returned"
    /\ ~DrawsRaise(ShapeH, ShapeW, inp.requirements, inp.max_iter)
    /\ assignment' = ia[1].assignment
    /\ pc' = "search"
    /\ i' = 0
    /\ UNCHANGED <<inp, ia, last, mv, ed>>

\* heuristic.py:136-142: a draw raises ValueError
LS_SetupRaises ==
    /\ pc = "initial_assignment"
    /\ ia[1].pc = "returned"
    /\ DrawsRaise(ShapeH, ShapeW, inp.requirements, inp.max_iter)
    /\ assignment' = ia[1].assignment
    /\ pc' = "error"
    /\ UNCHANGED <<inp, ia, i, last, mv, ed>>

\* heuristic.py:150-152 with pos1[i], pos2[i], pos3[i], assign_num[i] as given.
\* The arrays are drawn up front, element i is read in iteration i only and
\* the draws are independent, so each element is chosen when it is read.
LS_IterWith(pos1, pos2, pos3, target) ==
    /\ pc = "search"
    /\ in_range(i, inp.max_iter)
    /\ LET swap   == try_swap_assignment(assignment, pos1, pos2)
           change == try_change_single_assigment(swap.assignment, pos3, target)
       IN  /\ assignment' = change.assignment
           /\ last' = [target |-> target, ret_swap |-> swap.ret,
                       ret_change |-> change.ret]
    /\ i' = i + 1
    /\ UNCHANGED <<inp, ia, pc, mv, ed>>

LS_Iter ==
    \E pos1 \in CandidatePositions(ShapeH, ShapeW),
       pos2 \in CandidatePositions(ShapeH, ShapeW),
       pos3 \in CandidatePositions(ShapeH, ShapeW),
       target \in CandidateTargets(inp.requirements) :
        LS_IterWith(pos1, pos2, pos3, target)

\* heuristic.py:162-169: the loop is over, return assignment
LS_Return ==
    /\ pc = "search"
    /\ ~in_range(i, inp.max_iter)
    /\ pc' = "done"
    /\ UNCHANGED <<inp, ia, assignment, i, last, mv, ed>>

---------------------------------------------------------------------------
(* Values of the variables an entry point does not use.                    *)

NoPos == <<0, 0>>
NoIA == [r \in {} |-> 0]
NoLast == [target |-> 0, ret_swap |-> FALSE, ret_change |-> FALSE]
NoMv == [op |-> "none", pos1 |-> NoPos, pos2 |-> NoPos, target |-> 0,
         ret |-> FALSE, before |-> 0]
NoEd == [pc |-> "unused", i |-> 0, j |-> 0, pairs |-> <<>>, p |-> 0, z |-> {}]

---------------------------------------------------------------------------
(* SpecMoves: the moves and the scoring called directly on an arbitrary    *)
(* n x n array of ids.                                                     *)

InitMoves ==
    /\ \E n \in 1..MaxN :
         /\ inp = [n |-> n, grid |-> Zeros2D(n), requirements |-> <<>>,
                   max_iter |-> 0]
         /\ assignment \in [Cells(n) -> 0..MaxId]
    /\ ia = NoIA
    /\ pc = "moves"
    /\ i = 0
    /\ last = NoLast
    /\ mv = NoMv
    /\ ed = NoEd

CallSwap ==
    /\ pc = "moves"
    /\ mv.op = "none"
    /\ \E pos1 \in Cells(inp.n), pos2 \in Cells(inp.n) :
         LET res == try_swap_assignment(assignment, pos1, pos2)
         IN  /\ assignment' = res.assignment
             /\ mv' = [op |-> "swap", pos1 |-> pos1, pos2 |-> pos2,
                       target |-> 0, ret |-> res.ret,
                       before |-> _total_edge_diff(assignment)]
    /\ UNCHANGED <<inp, ia, pc, i, last, ed>>

CallChange ==
    /\ pc = "moves"
    /\ mv.op = "none"
    /\ \E pos \in Cells(inp.n), new_value \in 0..(MaxId + 1) :
         LET res == try_change_single_assigment(assignment, pos, new_value)
         IN  /\ assignment' = res.assignment
             /\ mv' = [op |-> "change", pos1 |-> pos, pos2 |-> pos,
                       target |-> new_value, ret |-> res.ret,
                       before |-> _total_edge_diff(assignment)]
    /\ UNCHANGED <<inp, ia, pc, i, last, ed>>

NextMoves == CallSwap \/ CallChange

SpecMoves == InitMoves /\ [][NextMoves]_vars

---------------------------------------------------------------------------
(* C1: try_swap_assignment and try_change_single_assigment never increase  *)
(* the whole-grid total edge-difference when they return True and leave it *)
(* unchanged when they return False, for every array, positions and target *)
(* (adjacent cells, a cell with itself and equal ids included).            *)
C1_MovesNeverWorsen ==
    mv.op \in {"swap", "change"} =>
        /\ mv.ret => _total_edge_diff(assignment) <= mv.before
        /\ ~mv.ret => _total_edge_diff(assignment) = mv.before

Adjacent(p, q) ==
    \/ p[1] = q[1] /\ (p[2] = q[2] + 1 \/ q[2] = p[2] + 1)
    \/ p[2] = q[2] /\ (p[1] = q[1] + 1 \/ q[1] = p[1] + 1)

\* an accepted swap of two adjacent cells
C1_Witness ==
    /\ mv.op = "swap"
    /\ mv.ret
    /\ Adjacent(mv.pos1, mv.pos2)
    /\ _total_edge_diff(assignment) < mv.before

\* the sum of calc_local_score over a set of cells
RECURSIVE SumLocal(_, _)
SumLocal(a, cells) ==
    IF cells = {} THEN 0
    ELSE LET cell == CHOOSE x \in cells : TRUE
         IN  calc_local_score(a, cell[1], cell[2]) + SumLocal(a, cells \ {cell})

(* C2: for every n x n array, _total_edge_diff equals half the sum of      *)
(* calc_local_score over all cells (only existing neighbours are counted). *)
C2_TotalIsHalfLocalSum ==
    pc = "moves" =>
        2 * _total_edge_diff(assignment) = SumLocal(assignment, Cells(inp.n))

\* a 3 x 3 array whose centre cell differs from all four neighbours
C2_Witness ==
    /\ pc = "moves"
    /\ inp.n = 3
    /\ calc_local_score(assignment, 1, 1) = 4
    /\ calc_local_score(assignment, 0, 0) = 0
    /\ _total_edge_diff(assignment) > 4

---------------------------------------------------------------------------
(* Spec: solve_assignment of the heuristic, from its call to its return.   *)

\* the enumerated grids, requirements and iteration counts
EnumGrids == UNION {{[n |-> n, grid |-> g] : g \in [Cells(n) -> 0..MaxWeight]} :
                        n \in 1..MaxGridN}
EnumRequirements == UNION {[1..m -> 1..MaxReq] : m \in 1..MaxM}

\* the two scenarios of the specification's test list
ScenarioSingleCell == [n |-> 1, grid |-> [cell \in Cells(1) |-> 5],
                       requirements |-> <<1>>]
ScenarioUniform == [n |-> 3, grid |-> [cell \in Cells(3) |-> 1],
                    requirements |-> <<3, 3, 3>>]

Inputs ==
    {[n |-> g.n, grid |-> g.grid, requirements |-> rq] :
        g \in EnumGrids, rq \in EnumRequirements}
    \cup {ScenarioSingleCell, ScenarioUniform}

IsScenario(s) ==
    /\ inp.n = s.n
    /\ inp.grid = s.grid
    /\ inp.requirements = s.requirements

Init ==
    /\ \E in \in Inputs, max_iter \in 0..MaxIter :
         inp = [n |-> in.n, grid |-> in.grid, requirements |-> in.requirements,
                max_iter |-> max_iter]
    /\ ia = [r \in {1} |-> EntryIA]
    /\ pc = "initial_assignment"
    /\ assignment = <<>>
    /\ i = 0
    /\ last = NoLast
    /\ mv = NoMv
    /\ ed = NoEd

Next ==
    \/ IA_Start(1)
    \/ IA_Break(1)
    \/ IA_Skip(1)
    \/ IA_Assign(1)
    \/ IA_Exhausted(1)
    \/ LS_Setup
    \/ LS_SetupRaises
    \/ LS_Iter
    \/ LS_Return

Spec == Init /\ [][Next]_vars

(* C3: during initial_assignment and in its result, every player's summed *)
(* cell weight is at most floor(requirements[k] * 1.2).                    *)
C3_ScoreWithinUpperBound ==
    \A r \in DOMAIN ia :
        ia[r].pc \in {"loop", "returned"} =>
            \A k \in Players(inp.requirements) :
                10 * PlayerScore(ia[r].assignment, k)
                    <= 12 * Req(inp.requirements, k)

\* a finished run in which a player used the tolerance up to the bound
\* (score = floor(1.2 r) > r) and a weighted cell was left unassigned
C3_Witness ==
    /\ pc = "initial_assignment"
    /\ ia[1].pc = "returned"
    /\ \E k \in Players(inp.requirements) :
         /\ PlayerScore(ia[1].assignment, k) > Req(inp.requirements, k)
         /\ PlayerScore(ia[1].assignment, k)
              = (12 * Req(inp.requirements, k)) \div 10
    /\ \E cell \in Cells(inp.n) :
         ia[1].assignment[cell] = 0 /\ inp.grid[cell] > 0

(* C4 as stated: on the 1 x 1 grid of weight 5 with requirements [1],     *)
(* initial_assignment returns [[1]] and the total edge-difference is 0.    *)
C4_SingleCellAssigned ==
    (IsScenario(ScenarioSingleCell) /\ ia[1].pc = "returned") =>
        /\ ia[1].assignment[0, 0] = 1
        /\ _total_edge_diff(ia[1].assignment) = 0

(* C4 amended: on that input initial_assignment leaves the sole cell      *)
(* unassigned (weight 5 exceeds the upper bound floor(1.2) = 1, so player  *)
(* 1 is never eligible); the result is [[0]] with total edge-difference 0. *)
C4_SingleCellUnassigned ==
    (IsScenario(ScenarioSingleCell) /\ ia[1].pc = "returned") =>
        /\ ia[1].assignment[0, 0] = 0
        /\ _total_edge_diff(ia[1].assignment) = 0

C4_Witness ==
    /\ IsScenario(ScenarioSingleCell)
    /\ ia[1].pc = "returned"
    /\ ia[1].pos = 2
    /\ ~ia[1].satisfied[0]

(* C5: on the 3 x 3 grid of weight 1 with requirements [3,3,3],           *)
(* initial_assignment assigns all 9 cells and every player scores 3.       *)
C5_UniformAllAssigned ==
    (IsScenario(ScenarioUniform) /\ ia[1].pc = "returned") =>
        /\ \A cell \in Cells(3) : ia[1].assignment[cell] \in 1..3
        /\ \A k \in 0..2 : PlayerScore(ia[1].assignment, k) = 3

C5_Witness ==
    /\ IsScenario(ScenarioUniform)
    /\ ia[1].pc = "returned"
    /\ \A k \in 0..2 : ia[1].satisfied[k]
    /\ Cardinality({cell \in Cells(3) : ia[1].assignment[cell] = 2}) = 3

(* C6: solve_assignment with max_iter = 0 returns the assignment that     *)
(* initial_assignment returned, cell for cell.                             *)
C6_ZeroIterationsIdentity ==
    (pc = "done" /\ inp.max_iter = 0) => assignment = ia[1].assignment

\* a returned zero-iteration run whose seed a recolor would have improved
C6_Witness ==
    /\ pc = "done"
    /\ inp.max_iter = 0
    /\ assignment = ia[1].assignment
    /\ \E pos \in CandidatePositions(ShapeH, ShapeW),
          target \in CandidateTargets(inp.requirements) :
            try_change_single_assigment(assignment, pos, target).ret

(* C9 as stated: the candidate positions span the full grid: every cell,  *)
(* column 0 included, is among the positions an iteration can draw as a   *)
(* swap position (pos1, pos2) and as the recolor position (pos3).          *)
C9_CandidatesSpanGrid ==
    (pc = "search" /\ in_range(i, inp.max_iter)) =>
        \A cell \in Cells(inp.n) : cell \in CandidatePositions(ShapeH, ShapeW)

(* C10 as stated: the recolor target of every iteration is in 0..m,        *)
(* m = len(requirements).                                                  *)
C10_TargetInRange ==
    (pc \in {"search", "done"} /\ i > 0) =>
        last.target \in 0..NumPlayers(inp.requirements)

\* the players the claim calls eligible for a cell of weight value, given the
\* accumulated scores: accumulated < requirement and the weight fits below
\* floor(1.2 requirement)
EligibleByScore(scores, value) ==
    {k \in Players(inp.requirements) :
        /\ scores[k] < Req(inp.requirements, k)
        /\ 10 * (scores[k] + value) <= 12 * Req(inp.requirements, k)}

\* upper bound minus accumulated score
RemainingCapacity(scores, k) ==
    (12 * Req(inp.requirements, k)) \div 10 - scores[k]

\* the step of run 1 visits a cell (the loop moves to the next flat index)
VisitsCell == ia[1].pc = "loop" /\ ia'[1].pos = ia[1].pos + 1

(* C11: cells are visited in descending weight order; a visited cell goes  *)
(* to the eligible player with the smallest remaining capacity (eligible:  *)
(* accumulated < requirement and the weight fits in the remaining          *)
(* capacity), stays 0 when no player is eligible, and once every player is *)
(* satisfied no further cell is assigned.                                  *)
C11_TightestEligiblePlayer ==
    [][ /\ ia[1].pc = "loop" =>
              \A a, b \in 1..Len(ia[1].order) :
                  a < b => Flatten(inp.grid, inp.n)[ia[1].order[a]]
                             >= Flatten(inp.grid, inp.n)[ia[1].order[b]]
        /\ VisitsCell =>
              LET cell  == <<CurRow(1), CurCol(1)>>
                  value == CurValue(1)
                  elig  == EligibleByScore(ia[1].scores, value)
                  now   == ia'[1].assignment
              IN  /\ \A other \in Cells(inp.n) \ {cell} :
                        now[other] = ia[1].assignment[other]
                  /\ elig = {} => now[cell] = 0
                  /\ elig # {} =>
                        /\ now[cell] - 1 \in elig
                        /\ \A k \in elig :
                              RemainingCapacity(ia[1].scores, now[cell] - 1)
                                <= RemainingCapacity(ia[1].scores, k)
        /\ (/\ ia[1].pc # "entry"
            /\ \A k \in Players(inp.requirements) :
                  PlayerScore(ia[1].assignment, k) >= Req(inp.requirements, k))
              => ia'[1].assignment = ia[1].assignment
      ]_vars

\* the cell just visited went to player 2 although player 1 was eligible too,
\* player 2 having the smaller remaining capacity
C11_Witness ==
    /\ pc = "initial_assignment"
    /\ ia[1].pc = "loop"
    /\ ia[1].pos > 1
    /\ NumPlayers(inp.requirements) = 2
    /\ LET f     == ia[1].order[ia[1].pos - 1]
           cell  == <<f \div inp.n, f % inp.n>>
           value == inp.grid[cell]
           before == [ia[1].scores EXCEPT ![1] = @ - value]
       IN  /\ ia[1].assignment[cell] = 2
           /\ EligibleByScore(before, value) = {0, 1}
           /\ RemainingCapacity(before, 1) < RemainingCapacity(before, 0)

(* C12: solve_assignment never raises: for every grid with n >= 1, every   *)
(* requirements vector and every iteration count >= 0 the draws succeed,   *)
(* and the call returns after exactly max_iter iterations.                 *)
C12_NeverRaises ==
    /\ pc # "error"
    /\ pc = "done" => i = inp.max_iter

(* C13: the local search does not protect the score band.  Whatever the    *)
(* scores become, a proposed recolor is accepted exactly when it lowers    *)
(* the local edge-difference score of its cell, an accepted recolor is     *)
(* kept as written and a rejected one leaves the array as it was; so from  *)
(* a seed with every score in [requirements[k], requirements[k] * 1.2] an  *)
(* accepted recolor can take a score out of the band (C13_Witness).        *)
C13_RecolorIgnoresBand ==
    (pc = "search" /\ in_range(i, inp.max_iter)) =>
        \A pos \in CandidatePositions(ShapeH, ShapeW) :
            \A target \in CandidateTargets(inp.requirements) :
                LET res     == try_change_single_assigment(assignment, pos, target)
                    changed == [assignment EXCEPT ![pos] = target]
                    lower   == calc_local_score(changed, pos[1], pos[2])
                                 < calc_local_score(assignment, pos[1], pos[2])
                IN  /\ res.ret <=> lower
                    /\ res.ret => res.assignment = changed
                    /\ ~res.ret => res.assignment = assignment

\* after one iteration whose swap was rejected and whose recolor was accepted,
\* the seed had every score in the band and the array no longer has
C13_Witness ==
    /\ pc \in {"search", "done"}
    /\ i = 1
    /\ ~last.ret_swap
    /\ last.ret_change
    /\ InBand(ia[1].assignment)
    /\ ~InBand(assignment)

\* the ids present in array a
IdsPresent(a) == {a[cell] : cell \in Cells(inp.n)}

\* the grid neighbours of a cell
Neighbours(cell) ==
    {nb \in Cells(inp.n) :
        \/ nb[1] = cell[1] /\ (nb[2] = cell[2] + 1 \/ nb[2] + 1 = cell[2])
        \/ nb[2] = cell[2] /\ (nb[1] = cell[1] + 1 \/ nb[1] + 1 = cell[1])}

(* C14: after any number of local-search iterations from the seed of       *)
(* initial_assignment every cell holds an id in 0..m and the ids present   *)
(* are among the ids of the seed; a recolor is accepted only when its      *)
(* target is the current id of a neighbour of the cell, so a target that   *)
(* occurs nowhere in the array (the out-of-range m+1 included) is          *)
(* rejected.                                                               *)
C14_IdsStayWithinSeed ==
    /\ pc \in {"search", "done"} =>
          /\ \A cell \in Cells(inp.n) :
                assignment[cell] \in 0..NumPlayers(inp.requirements)
          /\ IdsPresent(assignment) \subseteq IdsPresent(ia[1].assignment)
    /\ (pc = "search" /\ in_range(i, inp.max_iter)) =>
          \A pos \in CandidatePositions(ShapeH, ShapeW) :
              \A target \in CandidateTargets(inp.requirements) :
                  LET res == try_change_single_assigment(assignment, pos, target)
                  IN  /\ res.ret =>
                            \E nb \in Neighbours(pos) : assignment[nb] = target
                      /\ target \notin IdsPresent(assignment) =>
                            ~res.ret /\ res.assignment = assignment

\* two iterations have run, the array has moved away from the seed, and the
\* last recolor proposed the out-of-range id m+1 and was rejected
C14_Witness ==
    /\ pc \in {"search", "done"}
    /\ i = 2
    /\ assignment # ia[1].assignment
    /\ last.target = NumPlayers(inp.requirements) + 1
    /\ ~last.ret_change

---------------------------------------------------------------------------
(* SpecDet: two runs of initial_assignment on the same arguments.          *)

InitDet ==
    /\ \E in \in Inputs :
         inp = [n |-> in.n, grid |-> in.grid, requirements |-> in.requirements,
                max_iter |-> 0]
    /\ inp.n <= MaxGridN
    /\ ia = [r \in {1, 2} |-> EntryIA]
    /\ pc = "two_runs"
    /\ assignment = <<>>
    /\ i = 0
    /\ last = NoLast
    /\ mv = NoMv
    /\ ed = NoEd

NextDet ==
    \E r \in {1, 2} :
        \/ IA_Start(r)
        \/ IA_Break(r)
        \/ IA_Skip(r)
        \/ IA_Assign(r)
        \/ IA_Exhausted(r)

SpecDet == InitDet /\ [][NextDet]_vars

---------------------------------------------------------------------------
(* SpecPairs: the pair list and the z variables of the edge-difference     *)
(* formulation (edge_diff.py:52-68; mip_model.py:48-64 builds the same     *)
(* list, its two guards i+1 < n and j+1 < n being true inside the loops).  *)

\* range(n - 1), the bound of both loops
pair_range(n) == 0..(n - 2)

\* edge_diff.py:52: pairs = [], then the loops start at i = 0, j = 0
InitPairs ==
    /\ \E n \in 1..MaxPairN, m \in 1..MaxM :
         inp = [n |-> n, grid |-> Zeros2D(n),
                requirements |-> [k \in 1..m |-> 1], max_iter |-> 0]
    /\ ia = NoIA
    /\ pc = "edge_diff"
    /\ assignment = <<>>
    /\ i = 0
    /\ last = NoLast
    /\ mv = NoMv
    /\ ed = [pc |-> "pairs", i |-> 0, j |-> 0, pairs |-> <<>>, p |-> 0,
             z |-> {}]

\* edge_diff.py:53-56: one pass of the inner loop body, then the next (i, j)
ED_PairStep ==
    /\ ed.pc = "pairs"
    /\ ed.i \in pair_range(inp.n)
    /\ ed.j \in pair_range(inp.n)
    /\ LET appended ==
             Append(Append(ed.pairs, <<<<ed.i, ed.j>>, <<ed.i + 1, ed.j>>>>),
                    <<<<ed.i, ed.j>>, <<ed.i, ed.j + 1>>>>)
       IN  ed' = IF ed.j + 1 \in pair_range(inp.n)
                 THEN [ed EXCEPT !.pairs = appended, !.j = @ + 1]
                 ELSE [ed EXCEPT !.pairs = appended, !.i = @ + 1, !.j = 0]
    /\ UNCHANGED <<inp, ia, pc, assignment, i, last, mv>>

\* edge_diff.py:53,59: the outer loop is over, z = {}
ED_PairsDone ==
    /\ ed.pc = "pairs"
    /\ ed.i \notin pair_range(inp.n)
    /\ ed' = [ed EXCEPT !.pc = "z", !.p = 0]
    /\ UNCHANGED <<inp, ia, pc, assignment, i, last, mv>>

\* edge_diff.py:60-65: z[p, k] for every player k of pair p (0-indexed)
ED_ZStep ==
    /\ ed.pc = "z"
    /\ ed.p < Len(ed.pairs)
    /\ ed' = [ed EXCEPT
                !.z = @ \cup {<<ed.p, k>> : k \in Players(inp.requirements)},
                !.p = @ + 1]
    /\ UNCHANGED <<inp, ia, pc, assignment, i, last, mv>>

\* edge_diff.py:68: the objective sums z.values()
ED_Objective ==
    /\ ed.pc = "z"
    /\ ed.p = Len(ed.pairs)
    /\ ed' = [ed EXCEPT !.pc = "built"]
    /\ UNCHANGED <<inp, ia, pc, assignment, i, last, mv>>

NextPairs == ED_PairStep \/ ED_PairsDone \/ ED_ZStep \/ ED_Objective

SpecPairs == InitPairs /\ [][NextPairs]_vars

\* the horizontally and vertically adjacent cell pairs of the n x n grid
AdjacentPairs(n) ==
    {<<c, d>> \in Cells(n) \X Cells(n) :
        \/ d = <<c[1] + 1, c[2]>>
        \/ d = <<c[1], c[2] + 1>>}

\* the pairs that own a z variable for every player
PairsWithZ ==
    {ed.pairs[q] : q \in {q \in 1..Len(ed.pairs) :
                            \A k \in Players(inp.requirements) :
                                <<q - 1, k>> \in ed.z}}

(* C8 as stated: the pairs the formulation builds z variables for are      *)
(* exactly the 2 n (n - 1) grid-adjacent cell pairs, last row and last     *)
(* column included.                                                        *)
C8_PairsCoverAllAdjacent ==
    ed.pc = "built" =>
        /\ PairsWithZ = AdjacentPairs(inp.n)
        /\ Cardinality(PairsWithZ) = 2 * inp.n * (inp.n - 1)

===========================================================================
